---- MODULE Spec2Model ----
(***************************************************************************)
(* Model of rplugin/python3/denite/source/gitstatus.py: the repository     *)
(* root lookup (_find_root), the porcelain status parser (_parse_line,     *)
(* STATUS_MAP), the command runner (run_command), the candidate listing    *)
(* (Source.gather_candidates) and the actions of the gitstatus Kind.       *)
(*                                                                         *)
(* Python strings are sequences of one-character strings, so that slicing, *)
(* joining, splitting and tokenising are computed as the code computes     *)
(* them.                                                                   *)
(***************************************************************************)
EXTENDS Integers, Sequences, FiniteSets, TLC

VARIABLES
    \* --- Source.on_init / _find_root
    cwd,           \* the local `cwd` of on_init: the start directory
    path,          \* the local `path` of _find_root
    fsDotGit,      \* file system: directory -> kind of its ".git" entry
    fsMounts,      \* file system: the directories that are mount points
    pc,            \* position of _find_root: "loop" or "done"
    ctxRoot,       \* context['__root']: the value _find_root returned
    \* --- _parse_line
    line,          \* the argument `line`
    parsed,        \* what _parse_line did: returned a candidate or raised
    \* --- Source.gather_candidates / run_command
    proc,          \* what the git subprocess did (input of run_command)
    lines,         \* the local `lines`: what run_command did
    listing,       \* what gather_candidates did: returned a list or raised
    \* --- Kind (the gitstatus actions)
    remove,             \* self.remove, chosen by Kind.__init__
    _previewed_target,  \* self._previewed_target
    previewWindow,      \* host: what the preview window shows, None if closed
    call,               \* the invocation being served, or served last
    reset_args,         \* the local `args` of action_reset, <<>> if not set
    effects,            \* what the last handler (or loop iteration) did
    outcome,            \* whether it returned or raised
    resetting,          \* action_reset is inside its loop over the targets
    resetCount          \* the targets that loop has handled so far

rootVars == <<cwd, path, fsDotGit, fsMounts, pc, ctxRoot>>
parseVars == <<line, parsed>>
gatherVars == <<proc, lines, listing>>
previewVars == <<_previewed_target, previewWindow>>
resetVars == <<reset_args, resetting, resetCount>>
kindVars == <<remove, previewVars, call, effects, outcome, resetVars>>
vars == <<rootVars, parseVars, gatherVars, kindVars>>

(***************************************************************************)
(* Bounds of the model.                                                    *)
(***************************************************************************)
MaxDepth == 3      \* directories below "/" in the start directory
MaxLineLen == 4    \* characters of a status line given to _parse_line
MaxOutLen == 6     \* characters of the git output given to gather_candidates
MaxNameLen == 2    \* characters of a file name in a status line
MaxTargets == 2    \* targets selected for one action

None == <<"None">>     \* Python's None (no path is this sequence)

\* What a call did: returned a value, or raised an exception.
Return(v) == [tag |-> "return", value |-> v]
Raise(e) == [tag |-> "raise", exc |-> e]
Pending == [tag |-> "pending"]

(***************************************************************************)
(* String helpers (Python str operations on sequences of characters).      *)
(***************************************************************************)
SeqsUpTo(S, n) == UNION {[1..k -> S] : k \in 0..n}

StartsWith(s, c) == Len(s) > 0 /\ s[1] = c
EndsWith(s, c) == Len(s) > 0 /\ s[Len(s)] = c

\* s[i:] for i >= 0 (0-based, as in Python): never raises, possibly empty
SliceFrom(s, i) == SubSeq(s, i + 1, Len(s))

RECURSIVE RStrip(_, _)
RStrip(s, c) == IF EndsWith(s, c) THEN RStrip(SubSeq(s, 1, Len(s) - 1), c) ELSE s

\* str.rfind(c) + 1: the 1-based position of the last c, 0 when there is none
RFind1(s, c) ==
    LET S == {i \in 1..Len(s) : s[i] = c}
    IN IF S = {} THEN 0 ELSE CHOOSE i \in S : \A j \in S : j <= i

AllAre(s, c) == \A i \in 1..Len(s) : s[i] = c

(***************************************************************************)
(* posixpath                                                               *)
(***************************************************************************)
\* os.path.join(a, b)
join(a, b) ==
    IF StartsWith(b, "/") THEN b
    ELSE IF a = <<>> \/ EndsWith(a, "/") THEN a \o b
    ELSE a \o <<"/">> \o b

\* os.path.dirname(p)
dirname(p) ==
    LET head == SubSeq(p, 1, RFind1(p, "/"))
    IN IF head # <<>> /\ ~AllAre(head, "/") THEN RStrip(head, "/") ELSE head

(***************************************************************************)
(* The file system _find_root looks at.  Directories are normalised        *)
(* absolute paths, as os.path.normpath(getcwd()) gives them.               *)
(***************************************************************************)
DirNames == {"d", "e"}

RECURSIVE AbsPath(_)
AbsPath(comps) ==
    IF comps = <<>> THEN <<"/">>
    ELSE join(AbsPath(SubSeq(comps, 1, Len(comps) - 1)), <<comps[Len(comps)]>>)

StartDirs == {AbsPath(cs) : cs \in SeqsUpTo(DirNames, MaxDepth)}

\* p and its ancestors up to "/"
RECURSIVE Chain(_)
Chain(p) == IF dirname(p) = p THEN {p} ELSE {p} \cup Chain(dirname(p))

DotGitKinds == {"none", "dir", "file"}

\* os.path.ismount(p): "/" is always a mount point
ismount(p) == p = <<"/">> \/ p \in fsMounts

\* os.path.isdir(os.path.join(p, '.git'))
isdir_dotgit(p) == fsDotGit[p] = "dir"

(***************************************************************************)
(* _find_root(path), one iteration of its `while True` per step.           *)
(***************************************************************************)
find_root_stops(p) == p = <<"/">> \/ ismount(p)

\* a walk that never leaves the directory it is in
find_root_next_stays(p) == p

find_root_next(p) == dirname(p)

FindRootReturnNone ==
    /\ pc = "loop"
    /\ find_root_stops(path)
    /\ pc' = "done"
    /\ ctxRoot' = None
    /\ UNCHANGED <<cwd, path, fsDotGit, fsMounts>>
    /\ UNCHANGED <<parseVars, gatherVars, kindVars>>

FindRootReturnPath ==
    /\ pc = "loop"
    /\ ~find_root_stops(path)
    /\ isdir_dotgit(path)
    /\ pc' = "done"
    /\ ctxRoot' = path
    /\ UNCHANGED <<cwd, path, fsDotGit, fsMounts>>
    /\ UNCHANGED <<parseVars, gatherVars, kindVars>>

FindRootAscend ==
    /\ pc = "loop"
    /\ ~find_root_stops(path)
    /\ ~isdir_dotgit(path)
    /\ path' = find_root_next(path)
    /\ UNCHANGED <<cwd, pc, ctxRoot, fsDotGit, fsMounts>>
    /\ UNCHANGED <<parseVars, gatherVars, kindVars>>

\* {}: the value of _previewed_target before any preview was opened
NoTarget ==
    [word |-> <<>>, action__path |-> <<>>, source__root |-> <<>>,
     source__staged |-> FALSE, source__tree |-> FALSE]

\* the invocation a handler is serving
Call(action, target, targets, res, bufdir, preview_window) ==
    [action |-> action, target |-> target, targets |-> targets, res |-> res,
     bufdir |-> bufdir, preview_window |-> preview_window]

NoCall == Call("none", NoTarget, <<>>, None, None, FALSE)

parseIdle == line = <<>> /\ parsed = Pending
previewIdle == _previewed_target = NoTarget /\ previewWindow = None
kindIdle ==
    /\ remove = "delete"
    /\ previewIdle
    /\ call = NoCall /\ effects = <<>> /\ outcome = Pending
    /\ reset_args = <<>> /\ resetting = FALSE /\ resetCount = 0
gatherIdle == proc = Pending /\ lines = Pending /\ listing = Pending

\* Source.on_init: cwd = normpath(getcwd()); context['__root'] = _find_root(cwd)
on_init ==
    /\ cwd \in StartDirs
    /\ path = cwd
    /\ fsDotGit \in [Chain(path) -> DotGitKinds]
    /\ fsMounts \in SUBSET (Chain(path) \ {<<"/">>})
    /\ pc = "loop"
    /\ ctxRoot = None

InitRoot == on_init /\ parseIdle /\ gatherIdle /\ kindIdle

NextRoot == FindRootReturnNone \/ FindRootReturnPath \/ FindRootAscend

SpecRoot == InitRoot /\ [][NextRoot]_vars

\* The loop is sequential code: an iteration that can run does run.
FairSpecRoot == SpecRoot /\ WF_vars(NextRoot)

(***************************************************************************)
(* Claims about _find_root                                                 *)
(***************************************************************************)
\* The nearest directory with a ".git" directory on the chain cwd, parent,
\* ..., looked for at and below the first mount point or "/" on that chain.
RECURSIVE NearestRepository(_)
NearestRepository(p) ==
    IF isdir_dotgit(p) THEN p
    ELSE IF p = <<"/">> \/ ismount(p) THEN None
    ELSE NearestRepository(dirname(p))

\* C4: whenever a directory with a .git subdirectory exists on the chain of
\* the start directory at or below the first mount boundary or "/", findRoot
\* returns the nearest such directory.
C4_NearestRepositoryReturned ==
    (pc = "done" /\ NearestRepository(cwd) # None)
        => ctxRoot = NearestRepository(cwd)

NoRepositoryInAncestry == \A d \in Chain(cwd) : ~isdir_dotgit(d)

\* C5: from a start directory with no .git directory anywhere in its
\* ancestry, findRoot terminates and returns absent.
C5_TerminatesAbsent ==
    NoRepositoryInAncestry => <>(pc = "done" /\ ctxRoot = None)

\* the walk went up at least two directories, found nothing, and returned
C5_Witness ==
    /\ NoRepositoryInAncestry
    /\ pc = "done" /\ ctxRoot = None
    /\ path # cwd /\ path # dirname(cwd)

(***************************************************************************)
(* STATUS_MAP and _parse_line                                              *)
(***************************************************************************)
\* code -> (symbol, description); the symbol of 'R' is U+2192, written "->"
STATUS_MAP ==
    (" " :> <<" ", <<>>>>) @@
    ("M" :> <<"~", <<"m","o","d","i","f","i","e","d">>>>) @@
    ("A" :> <<"+", <<"a","d","d","e","d">>>>) @@
    ("D" :> <<"-", <<"d","e","l","e","t","e","d">>>>) @@
    ("R" :> <<"->", <<"r","e","n","a","m","e","d">>>>) @@
    ("C" :> <<"C", <<"c","o","p","i","e","d">>>>) @@
    ("U" :> <<"U", <<"u","p","d","a","t","e","d">>>>) @@
    ("?" :> <<"?", <<"u","n","t","r","a","c","k","e","d">>>>)

Codes == DOMAIN STATUS_MAP

LJustWidth == 12

\* str.ljust(width)
ljust(s, width) ==
    IF Len(s) >= width THEN s ELSE s \o [i \in 1..(width - Len(s)) |-> " "]

\* "{0}{1} {2} {3} {4}".format(...)
format_word(index_symbol, tree_symbol, index_desc, tree_desc, rel) ==
    <<index_symbol, tree_symbol, " ">> \o index_desc \o <<" ">> \o tree_desc
        \o <<" ">> \o rel

\* a candidate whose flags are both taken from the index symbol
parse_line_index_only(l, root) ==
    LET index_symbol == STATUS_MAP[l[1]][1]
    IN [word |-> <<>>,
        action__path |-> join(root, SliceFrom(l, 3)),
        source__root |-> root,
        source__staged |-> index_symbol \notin {" ", "?"},
        source__tree |-> index_symbol \notin {" ", "?"}]

\* the body of _parse_line once both table lookups have succeeded
parse_line_candidate(l, root) ==
    LET index_symbol == STATUS_MAP[l[1]][1]
        index_desc == STATUS_MAP[l[1]][2]
        tree_symbol == STATUS_MAP[l[2]][1]
        tree_desc0 == STATUS_MAP[l[2]][2]
        tree_desc == IF tree_desc0 = index_desc THEN <<>> ELSE tree_desc0
    IN [word |-> format_word(index_symbol, tree_symbol,
                             ljust(index_desc, LJustWidth),
                             ljust(tree_desc, LJustWidth), SliceFrom(l, 3)),
        action__path |-> join(root, SliceFrom(l, 3)),
        source__root |-> root,
        source__staged |-> index_symbol \notin {" ", "?"},
        source__tree |-> tree_symbol \notin {" ", "?"}]

\* _parse_line(line, root): line[0] and line[1] raise IndexError past the end
\* of the line, STATUS_MAP[...] raises KeyError for a character not in the
\* table; line[3:] never raises.
_parse_line(l, root) ==
    IF Len(l) < 1 THEN Raise("IndexError")
    ELSE IF l[1] \notin Codes THEN Raise("KeyError")
    ELSE IF Len(l) < 2 THEN Raise("IndexError")
    ELSE IF l[2] \notin Codes THEN Raise("KeyError")
    ELSE Return(parse_line_candidate(l, root))

\* The repository root of the parser and listing specifications.
Root == <<"/", "r">>

\* Characters of the lines given to the parser: the codes of the table and
\* one character that is no code.
LineChars == Codes \cup {"x"}

ParseLines == SeqsUpTo(LineChars, MaxLineLen)

ParseLine ==
    /\ parsed = Pending
    /\ parsed' = _parse_line(line, ctxRoot)
    /\ UNCHANGED <<line, rootVars, gatherVars, kindVars>>

rootIdle ==
    /\ cwd = Root /\ path = Root
    /\ fsDotGit = [d \in Chain(Root) |-> IF d = Root THEN "dir" ELSE "none"]
    /\ fsMounts = {}
    /\ pc = "done"

InitParse ==
    /\ rootIdle /\ ctxRoot = Root
    /\ gatherIdle /\ kindIdle
    /\ line \in ParseLines
    /\ parsed = Pending

NextParse == ParseLine

SpecParse == InitParse /\ [][NextParse]_vars

\* C2: for every pair of codes of the status table, the candidate parsed from
\* a line with those codes has staged = (index code is neither ' ' nor '?')
\* and modifiedInTree = (tree code is neither ' ' nor '?'), also when the tree
\* label is suppressed.
C2_FlagsFollowCodes ==
    (parsed.tag = "return" /\ line[1] \in Codes /\ line[2] \in Codes) =>
        /\ parsed.value.source__staged = (line[1] \notin {" ", "?"})
        /\ parsed.value.source__tree = (line[2] \notin {" ", "?"})

\* "MM f" parsed: both flags set, and the tree label suppressed in the word
C2_Witness ==
    /\ parsed.tag = "return"
    /\ line[1] = "M" /\ line[2] = "M" /\ Len(line) = 4
    /\ parsed.value.source__staged /\ parsed.value.source__tree
    /\ parsed.value.word =
         <<"~", "~", " ">> \o ljust(STATUS_MAP["M"][2], LJustWidth) \o <<" ">>
            \o ljust(<<>>, LJustWidth) \o <<" ", line[4]>>

(***************************************************************************)
(* run_command and Source.gather_candidates                                *)
(***************************************************************************)
\* str.split(sep) for a one-character separator
RECURSIVE SplitAcc(_, _, _)
SplitAcc(s, sep, cur) ==
    IF s = <<>> THEN <<cur>>
    ELSE IF Head(s) = sep THEN <<cur>> \o SplitAcc(Tail(s), sep, <<>>)
    ELSE SplitAcc(Tail(s), sep, Append(cur, Head(s)))

split(s, sep) == SplitAcc(s, sep, <<>>)

\* the characters \s matches
Whitespace == {" ", "\t", "\n", "\r", "\f"}

\* EMPTY_LINE.fullmatch(line), EMPTY_LINE = re.compile(r"^\s*$")
EMPTY_LINE_fullmatch(l) == \A i \in 1..Len(l) : l[i] \in Whitespace

\* subprocess.run(commands, cwd=cwd, stdout=PIPE, stderr=STDOUT): check is not
\* set, so a non-zero exit status raises nothing; a program that cannot be
\* started raises FileNotFoundError (an OSError).
subprocess_run(p) ==
    IF ~p.started THEN Raise("FileNotFoundError")
    ELSE Return([returncode |-> p.returncode, stdout |-> p.stdout])

\* run_command(commands, cwd): only CalledProcessError is caught
run_command(p) ==
    LET r == subprocess_run(p)
    IN IF r.tag = "raise"
       THEN IF r.exc = "CalledProcessError" THEN Return(<<>>) ELSE r
       ELSE Return(split(r.value.stdout, "\n"))

\* the loop of gather_candidates over `lines`, candidates collected in acc
RECURSIVE gather_loop(_, _, _)
gather_loop(ls, root, acc) ==
    IF ls = <<>> THEN Return(acc)
    ELSE IF EMPTY_LINE_fullmatch(Head(ls)) THEN gather_loop(Tail(ls), root, acc)
    ELSE LET c == _parse_line(Head(ls), root)
         IN IF c.tag = "raise" THEN c
            ELSE gather_loop(Tail(ls), root, Append(acc, c.value))

\* Source.gather_candidates(context), given what run_command did
gather_candidates(root, ran) ==
    IF root = None \/ root = <<>> THEN Return(<<>>)
    ELSE IF ran.tag = "raise" THEN ran
    ELSE gather_loop(ran.value, root, <<>>)

\* Characters of the git output: two codes, a character that is no code, and
\* the line separator.
OutChars == {" ", "M", "x", "\n"}

ExitCodes == {0, 128}

ProcOutcomes ==
    {[started |-> FALSE, returncode |-> 0, stdout |-> <<>>]} \cup
    {[started |-> TRUE, returncode |-> rc, stdout |-> out] :
        rc \in ExitCodes, out \in SeqsUpTo(OutChars, MaxOutLen)}

GatherCandidates ==
    /\ listing = Pending
    /\ \E p \in ProcOutcomes :
        LET called == ~(ctxRoot = None \/ ctxRoot = <<>>)
            ran == IF called THEN run_command(p) ELSE Pending
        IN /\ proc' = (IF called THEN p ELSE Pending)
           /\ lines' = ran
           /\ listing' = gather_candidates(ctxRoot, ran)
    /\ UNCHANGED <<rootVars, parseVars, kindVars>>

InitGather ==
    /\ rootIdle /\ ctxRoot \in {None, Root}
    /\ parseIdle
    /\ gatherIdle /\ kindIdle

NextGather == GatherCandidates

SpecGather == InitGather /\ [][NextGather]_vars

\* a line the spec calls malformed
Malformed(l) == Len(l) < 3 \/ l[1] \notin Codes \/ l[2] \notin Codes

\* C3: when the status output has a non-blank malformed line (shorter than 3
\* characters, or with a first or second character outside the status table),
\* the listing fails with an error and returns no candidate list.
C3_MalformedLineFailsListing ==
    (listing.tag # "pending" /\ lines.tag = "return"
        /\ \E i \in 1..Len(lines.value) :
              ~EMPTY_LINE_fullmatch(lines.value[i]) /\ Malformed(lines.value[i]))
    => listing.tag = "raise"

\* C9: run_command never propagates an error: a non-zero exit status gives no
\* output, a subprocess that cannot be started gives the empty sequence.
C9_RunNeverRaises ==
    lines.tag # "pending" =>
        /\ lines.tag = "return"
        /\ (~proc.started \/ proc.returncode # 0) => lines.value = <<>>

(***************************************************************************)
(* posixpath.normpath / relpath and shlex.split, used by the Kind actions  *)
(***************************************************************************)
RECURSIVE JoinWith(_, _)
JoinWith(ss, sep) ==
    IF ss = <<>> THEN <<>>
    ELSE IF Len(ss) = 1 THEN ss[1]
    ELSE ss[1] \o sep \o JoinWith(Tail(ss), sep)

\* the components of normpath(p) for an absolute p: empty and "." components
\* dropped, ".." removing the component before it (and dropped at the top)
RECURSIVE NormComps(_, _)
NormComps(comps, acc) ==
    IF comps = <<>> THEN acc
    ELSE LET c == Head(comps)
         IN IF c = <<>> \/ c = <<".">> THEN NormComps(Tail(comps), acc)
            ELSE IF c = <<".", ".">>
                 THEN NormComps(Tail(comps),
                                IF acc = <<>> THEN acc
                                ELSE SubSeq(acc, 1, Len(acc) - 1))
            ELSE NormComps(Tail(comps), Append(acc, c))

abspath_list(p) == NormComps(split(p, "/"), <<>>)

\* os.path.normpath(p) for an absolute p
normpath(p) == <<"/">> \o JoinWith(abspath_list(p), <<"/">>)

RECURSIVE CommonPrefixLen(_, _)
CommonPrefixLen(a, b) ==
    IF a = <<>> \/ b = <<>> \/ Head(a) # Head(b) THEN 0
    ELSE 1 + CommonPrefixLen(Tail(a), Tail(b))

\* os.path.relpath(p, start) for absolute p and start
relpath(p, start) ==
    LET start_list == abspath_list(start)
        path_list == abspath_list(p)
        i == CommonPrefixLen(start_list, path_list)
        rel_list == [k \in 1..(Len(start_list) - i) |-> <<".", ".">>]
                        \o SubSeq(path_list, i + 1, Len(path_list))
    IN IF rel_list = <<>> THEN <<".">> ELSE JoinWith(rel_list, <<"/">>)

ShlexWhitespace == {" ", "\t", "\r", "\n"}
ShlexQuotes == {"'", "\""}
ShlexEscape == {"\\"}
ShlexEscapedQuotes == {"\""}

\* shlex.split(s): the tokens, or ValueError.  st is the lexer state: "ws"
\* between tokens, "word" inside one, a quote character inside quotes, "\\"
\* after an escape; est is the state an escape returns to.
RECURSIVE shlex_scan(_, _, _, _, _, _)
shlex_scan(s, st, est, token, quoted, out) ==
    IF s = <<>> THEN
        IF st \in ShlexQuotes THEN Raise("ValueError")     \* No closing quotation
        ELSE IF st \in ShlexEscape THEN Raise("ValueError") \* No escaped character
        ELSE IF st = "word" /\ (token # <<>> \/ quoted)
             THEN Return(Append(out, token))
        ELSE Return(out)
    ELSE
        LET c == Head(s)
            rest == Tail(s)
        IN IF st = "ws" THEN
               IF c \in ShlexWhitespace
               THEN shlex_scan(rest, "ws", est, token, quoted, out)
               ELSE IF c \in ShlexEscape
               THEN shlex_scan(rest, c, "word", token, quoted, out)
               ELSE IF c \in ShlexQuotes
               THEN shlex_scan(rest, c, est, token, quoted, out)
               ELSE shlex_scan(rest, "word", est, <<c>>, quoted, out)
           ELSE IF st \in ShlexQuotes THEN
               IF c = st
               THEN shlex_scan(rest, "word", est, token, TRUE, out)
               ELSE IF c \in ShlexEscape /\ st \in ShlexEscapedQuotes
               THEN shlex_scan(rest, c, st, token, TRUE, out)
               ELSE shlex_scan(rest, st, est, Append(token, c), TRUE, out)
           ELSE IF st \in ShlexEscape THEN
               LET kept == IF est \in ShlexQuotes /\ c # st /\ c # est
                           THEN Append(token, st) ELSE token
               IN shlex_scan(rest, est, est, Append(kept, c), quoted, out)
           ELSE \* st = "word"
               IF c \in ShlexWhitespace
               THEN IF token # <<>> \/ quoted
                    THEN shlex_scan(rest, "ws", est, <<>>, FALSE, Append(out, token))
                    ELSE shlex_scan(rest, "ws", est, token, quoted, out)
               ELSE IF c \in ShlexQuotes
               THEN shlex_scan(rest, c, est, token, quoted, out)
               ELSE IF c \in ShlexEscape
               THEN shlex_scan(rest, c, "word", token, quoted, out)
               ELSE shlex_scan(rest, "word", est, Append(token, c), quoted, out)

shlex_split(s) == shlex_scan(s, "ws", "ws", <<>>, FALSE, <<>>)

(***************************************************************************)
(* The gitstatus Kind: its state and what its actions do to the host.      *)
(***************************************************************************)
\* the string literals of the Kind's code
S_git == <<"g","i","t">>
S_add == <<"a","d","d">>
S_rmtrash == <<"r","m","t","r","a","s","h">>
S_terminal_git_add == <<"t","e","r","m","i","n","a","l"," ","g","i","t"," ","a","d","d"," ">>
S_patch == <<" ","-","-","p","a","t","c","h">>
S_pclose == <<"p","c","l","o","s","e","!">>
S_diff_cached == <<"D","i","f","f"," ","c","a","c","h","e","d","?","[","y","/","n","]">>
S_y == <<"y">>
S_cached == <<"-","-","c","a","c","h","e","d"," ">>
S_diffPreview == <<"e","a","s","y","g","i","t","#","d","i","f","f","P","r","e","v","i","e","w">>
S_select == <<"S","e","l","e","c","t"," ","a","c","t","i","o","n"," ","r","e","s","e","t"," ","o","r"," ","c","h","e","c","k","o","u","t"," ","[","r","/","c","]">>
S_git_checkout == <<"g","i","t"," ","c","h","e","c","k","o","u","t"," ","-","-"," ">>
S_git_reset == <<"g","i","t"," ","r","e","s","e","t"," ","H","E","A","D"," ","-","-"," ">>
S_Rm == <<"R","m"," ">>
S_delete == <<"d","e","l","e","t","e">>
S_checktime == <<"c","h","e","c","k","t","i","m","e">>
S_commit_message == <<"C","o","m","m","i","t"," ","m","e","s","s","a","g","e",":"," ">>
S_v == <<"-","v">>
S_m == <<"-","m">>
S_Gcommit == <<"G","c","o","m","m","i","t"," ">>
S_easygit_commit == <<"e","a","s","y","g","i","t","#","c","o","m","m","i","t">>
S_r == <<"r">>
S_c == <<"c">>

\* Something an action did to the outside: a subprocess run by run_command
\* (argv, cwd), a host command (vim.command: one string, executed in the
\* host's current directory), a host function call (vim.call: name and
\* arguments) or a prompt (util.input: message and default).
Effect(via, argv, dir) == [via |-> via, argv |-> argv, cwd |-> dir]

\* Kind.__init__: the delete strategy, from exists(':Rm') and
\* executable('rmtrash')
Kind_init_remove(exists_Rm, executable_rmtrash) ==
    IF exists_Rm = 2 THEN "rm"
    ELSE IF executable_rmtrash # 0 THEN "rmtrash"
    ELSE "delete"

\* [os.path.relpath(target['action__path'], root) for target in targets]
relpaths(targets, root) ==
    [i \in 1..Len(targets) |-> relpath(targets[i].action__path, root)]

\* Kind.action_add: what it runs
action_add(targets) ==
    LET root == targets[1].source__root
        args == <<S_git, S_add>> \o relpaths(targets, root)
    IN <<Effect("run_command", args, root)>>

\* Kind.action_patch: the host command it issues, in the host's directory hcwd
action_patch(targets, hcwd) ==
    LET root == targets[1].source__root
        args == relpaths(targets, root)
    IN <<Effect("vim.command",
                <<S_terminal_git_add \o JoinWith(args, <<" ">>) \o S_patch>>,
                hcwd)>>

\* Kind.action_commit: message is what the prompt returned, exists_Gcommit
\* what exists(':Gcommit') returned
action_commit(targets, message, exists_Gcommit, hcwd) ==
    LET root == targets[1].source__root
        args == <<S_v, S_m, message>>
        ask == Effect("util.input", <<S_commit_message>>, hcwd)
    IN IF exists_Gcommit # 0
       THEN <<ask, Effect("vim.command",
                          <<S_Gcommit \o JoinWith(args, <<" ">>)>>, hcwd)>>
       ELSE <<ask, Effect("vim.call",
                          <<S_easygit_commit,
                            JoinWith(args \o relpaths(targets, root), <<" ">>)>>,
                          hcwd)>>

\* run_command(shlex.split(args), root) in action_reset: the subprocess it
\* runs, and whether shlex.split raised
reset_run(args, root) ==
    LET argv == shlex_split(args)
    IN IF argv.tag = "raise" THEN [effects |-> <<>>, outcome |-> argv]
       ELSE [effects |-> <<Effect("run_command", argv.value, root)>>,
             outcome |-> Return(None)]

\* the delete branch of action_reset
reset_remove(filepath, root, bufdir, how, hcwd) ==
    IF how = "rm"
    THEN <<Effect("vim.command", <<S_Rm \o relpath(filepath, bufdir)>>, hcwd)>>
    ELSE IF how = "rmtrash"
    THEN <<Effect("run_command", <<S_rmtrash, filepath>>, root)>>
    ELSE <<Effect("vim.call", <<S_delete, filepath>>, hcwd)>>

\* a dispatch whose two single-flag branches run each other's command
reset_target_swapped(target, res, bufdir, how, hcwd) ==
    LET filepath == target.action__path
        root == target.source__root
        p == relpath(filepath, root)
        ask == Effect("util.input", <<S_select>>, hcwd)
        done == <<Effect("vim.command", <<S_checktime>>, hcwd)>>
        args == IF target.source__tree /\ target.source__staged
                THEN IF res = S_c THEN S_git_checkout \o p
                     ELSE IF res = S_r THEN S_git_reset \o p
                     ELSE <<>>
                ELSE IF target.source__tree THEN S_git_reset \o p
                ELSE IF target.source__staged THEN S_git_checkout \o p
                ELSE <<>>
        asked == IF target.source__tree /\ target.source__staged
                 THEN <<ask>> ELSE <<>>
        ran == IF args # <<>> THEN reset_run(args, root)
               ELSE IF target.source__tree \/ target.source__staged
               THEN [effects |-> <<>>, outcome |-> Return(None)]
               ELSE [effects |-> reset_remove(filepath, root, bufdir, how, hcwd),
                     outcome |-> Return(None)]
    IN [args |-> args,
        effects |-> asked \o ran.effects
                       \o (IF ran.outcome.tag = "raise" THEN <<>> ELSE done),
        outcome |-> ran.outcome]

\* one iteration of the loop of Kind.action_reset, for one target: the local
\* `args` it builds, what it does, and whether it raised.  res is what the
\* prompt returned (read only when the prompt is shown).
reset_target(target, res, bufdir, how, hcwd) ==
    LET filepath == target.action__path
        root == target.source__root
        p == relpath(filepath, root)
        ask == Effect("util.input", <<S_select>>, hcwd)
        done == <<Effect("vim.command", <<S_checktime>>, hcwd)>>
        args == IF target.source__tree /\ target.source__staged
                THEN IF res = S_c THEN S_git_checkout \o p
                     ELSE IF res = S_r THEN S_git_reset \o p
                     ELSE <<>>
                ELSE IF target.source__tree THEN S_git_checkout \o p
                ELSE IF target.source__staged THEN S_git_reset \o p
                ELSE <<>>
        asked == IF target.source__tree /\ target.source__staged
                 THEN <<ask>> ELSE <<>>
        ran == IF args # <<>> THEN reset_run(args, root)
               ELSE IF target.source__tree \/ target.source__staged
               THEN [effects |-> <<>>, outcome |-> Return(None)]
               ELSE [effects |-> reset_remove(filepath, root, bufdir, how, hcwd),
                     outcome |-> Return(None)]
    IN [args |-> args,
        effects |-> asked \o ran.effects
                       \o (IF ran.outcome.tag = "raise" THEN <<>> ELSE done),
        outcome |-> ran.outcome]

\* host: what the preview window shows after pclose!
host_pclose == None

\* host: what the preview window shows after easygit#diffPreview(arg); the
\* host has one preview window, which a new preview takes over
host_diffPreview(arg) == arg

\* a toggle that forgets to record the target it previews
action_delete_unrecorded(target, res, slot, win, hcwd) ==
    LET root == target.source__root
        p == relpath(target.action__path, root)
        prefix == IF target.source__staged /\ (target.source__tree => res = S_y)
                  THEN S_cached ELSE <<>>
    IN IF win # None /\ slot = target
       THEN [effects |-> <<Effect("vim.command", <<S_pclose>>, hcwd)>>,
             previewWindow |-> host_pclose, previewed_target |-> slot]
       ELSE [effects |-> <<Effect("vim.call", <<S_diffPreview, prefix \o p>>, hcwd)>>,
             previewWindow |-> host_diffPreview(prefix \o p),
             previewed_target |-> slot]

\* Kind.action_delete (the diff preview toggle) on targets[0]: slot is
\* self._previewed_target, win what __get_preview_window() finds, res what the
\* prompt returned (read only when the prompt is shown).  The win_getid /
\* win_gotoid calls around the preview only restore the window focus.
action_delete(target, res, slot, win, hcwd) ==
    LET root == target.source__root
        preview_window == win # None
        p == relpath(target.action__path, root)
        asks == target.source__staged /\ target.source__tree
        prefix == IF target.source__staged
                  THEN IF target.source__tree
                       THEN IF res = S_y THEN S_cached ELSE <<>>
                       ELSE S_cached
                  ELSE <<>>
    IN IF preview_window /\ slot = target
       THEN [effects |-> <<Effect("vim.command", <<S_pclose>>, hcwd)>>,
             previewWindow |-> host_pclose,
             previewed_target |-> slot]
       ELSE [effects |->
                (IF asks THEN <<Effect("util.input", <<S_diff_cached, S_y>>, hcwd)>>
                 ELSE <<>>)
                \o <<Effect("vim.call", <<S_diffPreview, prefix \o p>>, hcwd)>>,
             previewWindow |-> host_diffPreview(prefix \o p),
             previewed_target |-> target]

(***************************************************************************)
(* The candidates the actions are invoked on, and the host's inputs.       *)
(***************************************************************************)
\* characters of a file name: a letter, a space, a single quote
NameChars == {"a", " ", "'"}

FileNames == SeqsUpTo(NameChars, MaxNameLen) \ {<<>>}

SubDir == <<"s">>

\* paths as a status line reports them: the files of the root, and one file
\* of its subdirectory
RelPaths == FileNames \cup {SubDir \o <<"/", "a">>}

\* (index code, tree code): staged only, tree only, both, untracked
TargetCodePairs == {<<"M", " ">>, <<" ", "M">>, <<"M", "M">>, <<"?", "?">>}

StatusLines == {cp \o <<" ">> \o rel : cp \in TargetCodePairs, rel \in RelPaths}

\* the candidates of a listing of the repository at Root, which is what
\* on_init finds from each of the host's directories below
Candidates == {_parse_line(l, Root).value : l \in StatusLines}

Distinct(ts) == \A i, j \in 1..Len(ts) : i # j => ts[i] # ts[j]

TargetLists == {ts \in SeqsUpTo(Candidates, MaxTargets) : ts # <<>> /\ Distinct(ts)}

\* the host's current directory: the root or its subdirectory
HostDirs == {Root, join(Root, SubDir)}

\* no handler has been invoked yet.  add, patch, commit and reset read
\* nothing an earlier invocation left behind, so each behaviour serves one
\* invocation of them; the preview toggle keeps state and is invoked freely.
Idle == call = NoCall

\* what the user may type at a prompt; <<>> is an empty answer, and "y"
\* answers the reset prompt with neither of its two choices
Answers == {S_r, S_c, S_y, <<>>}

Messages == {<<"m">>, <<"m", " ", "n">>}

\* _find_root(p) as a function of the file system
RECURSIVE find_root_result(_)
find_root_result(p) ==
    IF find_root_stops(p) THEN None
    ELSE IF isdir_dotgit(p) THEN p
    ELSE find_root_result(find_root_next(p))

(***************************************************************************)
(* The actions of the Kind                                                 *)
(***************************************************************************)
ActionAdd ==
    /\ Idle
    /\ \E ts \in TargetLists :
        /\ call' = Call("add", NoTarget, ts, None, None, FALSE)
        /\ effects' = action_add(ts)
    /\ outcome' = Return(None)
    /\ reset_args' = <<>>
    /\ UNCHANGED <<rootVars, parseVars, gatherVars, remove, previewVars,
                   resetting, resetCount>>

ActionPatch ==
    /\ Idle
    /\ \E ts \in TargetLists :
        /\ call' = Call("patch", NoTarget, ts, None, None, FALSE)
        /\ effects' = action_patch(ts, cwd)
    /\ outcome' = Return(None)
    /\ reset_args' = <<>>
    /\ UNCHANGED <<rootVars, parseVars, gatherVars, remove, previewVars,
                   resetting, resetCount>>

ActionCommit ==
    /\ Idle
    /\ \E ts \in TargetLists, message \in Messages, exists_Gcommit \in {0, 2} :
        /\ call' = Call("commit", NoTarget, ts, message, None, FALSE)
        /\ effects' = action_commit(ts, message, exists_Gcommit, cwd)
    /\ outcome' = Return(None)
    /\ reset_args' = <<>>
    /\ UNCHANGED <<rootVars, parseVars, gatherVars, remove, previewVars,
                   resetting, resetCount>>

\* action_reset up to its loop: cwd = normpath(expand("%:p:h"))
ActionResetEnter ==
    /\ Idle
    /\ \E bufdir \in HostDirs :
        call' = Call("reset", NoTarget, <<>>, None, bufdir, FALSE)
    /\ resetting' = TRUE
    /\ resetCount' = 0
    /\ effects' = <<>>
    /\ outcome' = Pending
    /\ reset_args' = <<>>
    /\ UNCHANGED <<rootVars, parseVars, gatherVars, remove, previewVars>>

\* one iteration of the loop of action_reset, on the next target
ActionResetTarget ==
    /\ resetting
    /\ resetCount < MaxTargets
    /\ \E t \in Candidates :
        \E res \in IF t.source__staged /\ t.source__tree THEN Answers ELSE {None} :
            \E did \in {reset_target(t, res, call.bufdir, remove, cwd)} :
               /\ call' = [call EXCEPT !.target = t, !.res = res]
               /\ reset_args' = did.args
               /\ effects' = did.effects
               /\ outcome' = IF did.outcome.tag = "raise" THEN did.outcome ELSE Pending
               /\ resetting' = (did.outcome.tag # "raise")
    /\ resetCount' = resetCount + 1
    /\ UNCHANGED <<rootVars, parseVars, gatherVars, remove, previewVars>>

\* the loop of action_reset has handled every target
ActionResetReturn ==
    /\ resetting
    /\ resetCount >= 1
    /\ resetting' = FALSE
    /\ outcome' = Return(None)
    /\ UNCHANGED <<rootVars, parseVars, gatherVars, remove, previewVars, call,
                   effects, reset_args, resetCount>>

ActionDelete ==
    /\ ~resetting
    /\ \E t \in Candidates :
        \E res \in IF t.source__staged /\ t.source__tree
                      /\ ~(previewWindow # None /\ _previewed_target = t)
                   THEN Answers ELSE {None} :
            \E did \in {action_delete(t, res, _previewed_target, previewWindow, cwd)} :
               /\ call' = Call("delete", t, <<t>>, res, None, previewWindow # None)
               /\ effects' = did.effects
               /\ previewWindow' = did.previewWindow
               /\ _previewed_target' = did.previewed_target
    /\ outcome' = Return(None)
    /\ reset_args' = <<>>
    /\ UNCHANGED <<rootVars, parseVars, gatherVars, remove, resetting, resetCount>>

\* Kind.__init__ in a session started by on_init in the root or below it
InitKind ==
    /\ cwd \in HostDirs
    /\ fsDotGit = [d \in Chain(cwd) |-> IF d = Root THEN "dir" ELSE "none"]
    /\ fsMounts = {}
    /\ ctxRoot = find_root_result(cwd)
    /\ ctxRoot = Root
    /\ path = ctxRoot
    /\ pc = "done"
    /\ parseIdle /\ gatherIdle
    /\ \E exists_Rm \in {0, 2}, executable_rmtrash \in {0, 1} :
        remove = Kind_init_remove(exists_Rm, executable_rmtrash)
    /\ previewIdle
    /\ call = NoCall /\ effects = <<>> /\ outcome = Pending
    /\ reset_args = <<>> /\ resetting = FALSE /\ resetCount = 0

NextReset == ActionResetEnter \/ ActionResetTarget \/ ActionResetReturn

SpecReset == InitKind /\ [][NextReset]_vars

NextKind ==
    \/ ActionAdd \/ ActionPatch \/ ActionCommit
    \/ ActionResetEnter \/ ActionResetTarget \/ ActionResetReturn

SpecKind == InitKind /\ [][NextKind]_vars

NextPreview == ActionDelete

SpecPreview == InitKind /\ [][NextPreview]_vars

(***************************************************************************)
(* Claims about action_reset                                               *)
(***************************************************************************)
StartsWithSeq(s, pre) == Len(s) >= Len(pre) /\ SubSeq(s, 1, Len(pre)) = pre

IsGitRun(e) == e.via = "run_command" /\ e.argv # <<>> /\ e.argv[1] = S_git
IsPrompt(e) == e.via = "util.input"
IsRemoval(e) ==
    \/ e.via = "vim.command" /\ StartsWithSeq(e.argv[1], S_Rm)
    \/ e.via = "run_command" /\ e.argv # <<>> /\ e.argv[1] = S_rmtrash
    \/ e.via = "vim.call" /\ e.argv[1] = S_delete

GitRuns == SelectSeq(effects, IsGitRun)
Prompts == SelectSeq(effects, IsPrompt)
Removals == SelectSeq(effects, IsRemoval)

\* the loop of action_reset has just handled call.target
ResetHandled == call.action = "reset" /\ call.target # NoTarget

TargetRelPath == relpath(call.target.action__path, call.target.source__root)

\* the decision table of the reset action
ResetBranch ==
    LET staged == call.target.source__staged
        tree == call.target.source__tree
    IN IF staged /\ tree
       THEN IF call.res = S_r THEN "reset"
            ELSE IF call.res = S_c THEN "checkout"
            ELSE "none"
       ELSE IF staged THEN "reset"
       ELSE IF tree THEN "checkout"
       ELSE "delete"

ResetCommandLine ==
    IF ResetBranch = "reset" THEN S_git_reset \o TargetRelPath
    ELSE IF ResetBranch = "checkout" THEN S_git_checkout \o TargetRelPath
    ELSE <<>>

S_reset_argv == <<S_git, <<"r","e","s","e","t">>, <<"H","E","A","D">>, <<"-","-">>>>
S_checkout_argv == <<S_git, <<"c","h","e","c","k","o","u","t">>, <<"-","-">>>>

C10_OneCommandOnePath ==
    (ResetHandled /\ ResetBranch \in {"reset", "checkout"}) =>
        /\ Len(GitRuns) = 1
        /\ GitRuns[1].argv =
              Append(IF ResetBranch = "reset" THEN S_reset_argv ELSE S_checkout_argv,
                     TargetRelPath)

(***************************************************************************)
(* Claims about the git commands of add, patch, reset and commit           *)
(***************************************************************************)
IsTerminalGit(e) == e.via = "vim.command" /\ StartsWithSeq(e.argv[1], S_terminal_git_add)

NonEmpty(t) == t # <<>>

\* the words of a host command line
Words(text) == SelectSeq(split(text, " "), NonEmpty)

\* the pathspecs a git command names
Pathspecs(e) ==
    IF IsTerminalGit(e)
    THEN LET ws == Words(e.argv[1]) IN SubSeq(ws, 4, Len(ws) - 1)
    ELSE IF StartsWithSeq(e.argv, S_reset_argv) THEN SliceFrom(e.argv, 4)
    ELSE IF StartsWithSeq(e.argv, S_checkout_argv) THEN SliceFrom(e.argv, 3)
    ELSE SliceFrom(e.argv, 2)

\* the targets the invocation is about
CallTargets == IF call.action = "reset" THEN <<call.target>> ELSE call.targets

\* C6: every git command of the stage, patch, reset and checkout actions runs
\* with the repository root as working directory and names each target by
\* its root-relative path, so that each pathspec resolves to the candidate's
\* own absolute path whatever the host's current directory is.
C6_GitRunsAtRootWithRelativePaths ==
    (call.action \in {"add", "patch"} \/ ResetHandled) =>
        \A i \in 1..Len(effects) :
            (IsGitRun(effects[i]) \/ IsTerminalGit(effects[i])) =>
                LET e == effects[i]
                    root == CallTargets[1].source__root
                IN /\ e.cwd = root
                   /\ Pathspecs(e) = relpaths(CallTargets, root)
                   /\ \A k \in 1..Len(Pathspecs(e)) :
                         /\ ~StartsWith(Pathspecs(e)[k], "/")
                         /\ normpath(join(e.cwd, Pathspecs(e)[k]))
                               = normpath(CallTargets[k].action__path)

IsCommitHandoff(e) ==
    \/ e.via = "vim.command" /\ StartsWithSeq(e.argv[1], S_Gcommit)
    \/ e.via = "vim.call" /\ e.argv[1] = S_easygit_commit

\* the argument string handed to the commit workflow
CommitArguments(e) ==
    IF e.via = "vim.command" THEN SliceFrom(e.argv[1], Len(S_Gcommit)) ELSE e.argv[2]

\* C7: the commit action hands the commit workflow the verbose flag, the
\* message and the root-relative path of each selected target, whichever
\* workflow is available.
C7_CommitNamesSelectedTargets ==
    call.action = "commit" =>
        /\ \E i \in 1..Len(effects) : IsCommitHandoff(effects[i])
        /\ \A i \in 1..Len(effects) :
              IsCommitHandoff(effects[i]) =>
                  CommitArguments(effects[i]) =
                      JoinWith(<<S_v, S_m, call.res>>
                                  \o relpaths(call.targets, call.targets[1].source__root),
                               <<" ">>)

(***************************************************************************)
(* Claims about the diff preview toggle (action_delete)                    *)
(***************************************************************************)
\* the preview window shows the diff of t
PreviewShows(win, t) ==
    LET p == relpath(t.action__path, t.source__root)
    IN win = p \/ win = S_cached \o p

\* the preview that is open is the one recorded in the slot
PreviewIsOfSlot ==
    previewWindow # None =>
        /\ _previewed_target # NoTarget
        /\ PreviewShows(previewWindow, _previewed_target)

\* a step of the toggle on call'.target
ToggleStep ==
    LET t == call'.target
    IN /\ IF previewWindow # None /\ _previewed_target = t
          THEN /\ previewWindow' = None
               /\ _previewed_target' = _previewed_target
          ELSE /\ previewWindow' # None
               /\ PreviewShows(previewWindow', t)
               /\ _previewed_target' = t
       /\ (call.action = "delete" /\ ~call.preview_window /\ call.target = t)
              => previewWindow' = None

\* C8: the open preview is the one of the slot, and the slot holds the target
\* of the most recent opening; the toggle on the target whose preview is open
\* closes it and opens none, in any other state it opens a preview of its
\* target and records it; twice in a row on one target from no preview ends
\* with no preview.
C8_PreviewToggle == []PreviewIsOfSlot /\ [][ToggleStep]_vars

\* the toggle ran twice on one target, from no preview, and none is open
C8_Witness ==
    /\ call.action = "delete"
    /\ call.preview_window
    /\ previewWindow = None
    /\ _previewed_target = call.target
    /\ call.target.source__staged /\ call.target.source__tree

====
